---------------------------- MODULE Spec2Model ----------------------------
(***************************************************************************)
(* xml-dispatcher: an ordered registry of handlers and first-match         *)
(* dispatch of an XML payload (XMLProcessor), the example handlers         *)
(* (ReportHandler, InvoiceHandler, TestCodeChangesHandler) and the part of *)
(* encoding/xml's Unmarshal those handlers rely on.                        *)
(*                                                                         *)
(* A payload is the token stream the XML decoder reads from the bytes:     *)
(* start elements (with the value of their type attribute, "" when         *)
(* absent), end elements and character data.  A stream need not be well    *)
(* formed: truncated documents, mismatched end tags and stray end tags     *)
(* are payloads too.                                                       *)
(***************************************************************************)
EXTENDS Naturals, Sequences, FiniteSets, TLC

\* Largest registry the model builds.
MaxHandlers == 3

VARIABLES
    handlers,          \* XMLProcessor.handlers: the registry, in order
    parsedBranchName,  \* TestCodeChangesHandler.parsedBranchName
    op,                \* the operation that ran last
    xmlData,           \* the payload handed to it
    err,               \* the error it returned (Nil: success)
    trace,             \* the handler methods it invoked, in order
    printed,           \* the lines it wrote to standard output
    regLog,            \* history: the arguments of every RegisterHandler call
    repeat             \* history: the last two operations were ProcessXML
                       \* calls with the same payload

vars == <<handlers, parsedBranchName, op, xmlData, err, trace, printed,
          regLog, repeat>>

---------------------------------------------------------------------------
(* Payloads *)

S(n, t) == [k |-> "S", name |-> n, type |-> t, text |-> ""]
E(n)    == [k |-> "E", name |-> n, type |-> "", text |-> ""]
T(x)    == [k |-> "T", name |-> "", type |-> "", text |-> x]

Doc(root, type, body) == <<S(root, type)>> \o body \o <<E(root)>>
Child(n, x) == <<S(n, ""), T(x), E(n)>>

ReportDoc  == Doc("report", "", Child("data", "Hello"))
InvoiceDoc == Doc("invoice", "sales", Child("amount", "100"))
CodeChangesDoc ==
    Doc("code_changes", "", Child("branch_name", "feature/update-docs"))

WellFormed ==
    { ReportDoc, InvoiceDoc, CodeChangesDoc,
      Doc("report", "", <<>>),
      Doc("report", "sales", Child("amount", "100")),
      Doc("invoice", "other", <<>>),
      Doc("code_changes", "", <<>>),
      Doc("unknown", "", <<>>) }

\* Every proper prefix of a document: the empty payload and the truncations.
Prefixes(d) == { SubSeq(d, 1, n) : n \in 0..(Len(d) - 1) }

Malformed ==
    UNION { Prefixes(d) : d \in {ReportDoc, CodeChangesDoc} }
    \cup { <<S("invoice", "sales")>>,
           <<S("report", ""), E("invoice")>>,
           <<S("code_changes", ""), S("branch_name", ""), T("hotfix"),
             E("data"), E("code_changes")>>,
           <<E("report")>>,
           <<T("junk")>> \o ReportDoc,
           Doc("report", "", <<>>) \o <<E("unknown")>> }

Payloads == WellFormed \cup Malformed

---------------------------------------------------------------------------
(* Errors *)

Nil == "nil"
NoHandlerFound == "no handler found for the given XML"
ErrEOF == "EOF"
ErrUnexpectedEOF == "XML syntax error: unexpected EOF"
ErrUnexpectedEnd == "XML syntax error: unexpected end element"
ErrMismatchedEnd == "XML syntax error: element closed by another end element"
ErrExpectedElement == "expected element type differs from the one found"

DecodeErrors ==
    { ErrEOF, ErrUnexpectedEOF, ErrUnexpectedEnd, ErrMismatchedEnd,
      ErrExpectedElement }

---------------------------------------------------------------------------
(* xml.Unmarshal into the structs the handlers declare.  A struct is given *)
(* by the name its XMLName field demands (NoName: no XMLName field), by    *)
(* whether it has a Type field read from the type attribute, and by the    *)
(* child element its string field is read from (NoField: none).            *)

NoName == "-"
NoField == "-"

Zero == [XMLName |-> "", Type |-> "", Value |-> ""]

\* The decoder looks for the first start element: character data before it
\* is passed over, an end element there is a syntax error, and the end of
\* the input is io.EOF.  The result is the index of the start element, or 0
\* with the error.
RECURSIVE FindStart(_, _)
FindStart(data, i) ==
    IF i > Len(data) THEN [at |-> 0, err |-> ErrEOF]
    ELSE IF data[i].k = "S" THEN [at |-> i, err |-> Nil]
    ELSE IF data[i].k = "E" THEN [at |-> 0, err |-> ErrUnexpectedEnd]
    ELSE FindStart(data, i + 1)

\* The content of the root element, read token by token from index i.
\* open: the names of the elements open at i, the root first.  A child of
\* the root named as the struct's field is decoded into it: its own
\* character data is gathered in buf and stored when its end tag is read.
\* Every other element is skipped, its tokens still read.  v is the struct
\* as filled so far: it is what the caller's variable holds when Unmarshal
\* returns, with or without an error.
RECURSIVE Content(_, _, _, _, _, _)
Content(data, i, open, field, buf, v) ==
    IF i > Len(data) THEN [err |-> ErrUnexpectedEOF, v |-> v]
    ELSE LET tok == data[i]
             inField == /\ Len(open) >= 2
                        /\ field # NoField
                        /\ open[2] = field
         IN  CASE tok.k = "S" ->
                    Content(data, i + 1, Append(open, tok.name), field,
                            IF Len(open) = 1 THEN "" ELSE buf, v)
               [] tok.k = "T" ->
                    Content(data, i + 1, open, field,
                            IF inField /\ Len(open) = 2
                            THEN buf \o tok.text ELSE buf, v)
               [] OTHER ->
                    IF tok.name # open[Len(open)]
                    THEN [err |-> ErrMismatchedEnd, v |-> v]
                    ELSE IF Len(open) = 1
                    THEN [err |-> Nil, v |-> v]
                    ELSE Content(data, i + 1, SubSeq(open, 1, Len(open) - 1),
                                 field, buf,
                                 IF inField /\ Len(open) = 2
                                 THEN [v EXCEPT !.Value = buf] ELSE v)

Unmarshal(data, struct) ==
    LET s == FindStart(data, 1) IN
    IF s.err # Nil THEN [err |-> s.err, v |-> Zero]
    ELSE LET start == data[s.at] IN
         IF struct.xmlname # NoName /\ start.name # struct.xmlname
         THEN [err |-> ErrExpectedElement, v |-> Zero]
         ELSE Content(data, s.at + 1, <<start.name>>, struct.field, "",
                      [XMLName |-> IF struct.xmlname # NoName
                                   THEN start.name ELSE "",
                       Type    |-> IF struct.attr THEN start.type ELSE "",
                       Value   |-> ""])

---------------------------------------------------------------------------
(* Handlers *)

ReportHandler == "ReportHandler"
InvoiceHandler == "InvoiceHandler"
TestCodeChangesHandler == "TestCodeChangesHandler"
\* Two implementations of the Handler interface by a client of the package:
\* one that recognises a payload by its root start tag alone and decodes it
\* only in Handle, and one that accepts every payload and does nothing.
RootPeekHandler == "RootPeekHandler"
CatchAllHandler == "CatchAllHandler"

ExampleHandlers == {ReportHandler, InvoiceHandler}
DecodingHandlers == {ReportHandler, InvoiceHandler, TestCodeChangesHandler}
Handler == DecodingHandlers \cup {RootPeekHandler, CatchAllHandler}

\* The struct Root each CanHandle declares.
RootStruct(h) ==
    CASE h = ReportHandler ->
           [xmlname |-> "report", attr |-> FALSE, field |-> NoField]
      [] h = InvoiceHandler ->
           [xmlname |-> "invoice", attr |-> TRUE, field |-> NoField]
      [] OTHER ->
           [xmlname |-> "code_changes", attr |-> FALSE, field |-> NoField]

\* The struct each Handle declares.
HandleStructWithRootName(h) ==
    [xmlname |-> "Report", attr |-> FALSE,
     field |-> IF h = ReportHandler THEN "data"
               ELSE IF h = InvoiceHandler THEN "amount" ELSE "branch_name"]
HandleStruct(h) ==
    CASE h = ReportHandler ->
           [xmlname |-> NoName, attr |-> FALSE, field |-> "data"]
      [] h = InvoiceHandler ->
           [xmlname |-> NoName, attr |-> FALSE, field |-> "amount"]
      [] OTHER ->
           [xmlname |-> NoName, attr |-> FALSE, field |-> "branch_name"]

CanHandleIgnoringErr(h, data) ==
    IF h = CatchAllHandler THEN TRUE
    ELSE IF h = RootPeekHandler
    THEN LET s == FindStart(data, 1)
         IN  s.err = Nil /\ data[s.at].name = "code_changes"
    ELSE LET root == Unmarshal(data, RootStruct(h)) IN
         /\ root.v.XMLName = RootStruct(h).xmlname
         /\ (h = InvoiceHandler => root.v.Type = "sales")
CanHandle(h, data) ==
    IF h = CatchAllHandler THEN TRUE
    ELSE IF h = RootPeekHandler
    THEN LET s == FindStart(data, 1)
         IN  s.err = Nil /\ data[s.at].name = "code_changes"
    ELSE LET root == Unmarshal(data, RootStruct(h)) IN
         /\ root.err = Nil
         /\ root.v.XMLName = RootStruct(h).xmlname
         /\ (h = InvoiceHandler => root.v.Type = "sales")

\* The side effect of a Handle that decoded v: a line on standard output,
\* or the field of the test handler.
Effect(h, v, branch) ==
    CASE h = ReportHandler ->
           [printed |-> <<"Processing report: " \o v.Value>>,
            branch |-> branch]
      [] h = InvoiceHandler ->
           [printed |-> <<"Processing invoice amount: " \o v.Value>>,
            branch |-> branch]
      [] h = TestCodeChangesHandler ->
           [printed |-> <<>>, branch |-> v.Value]
      [] OTHER -> [printed |-> <<>>, branch |-> branch]

NoEffect(branch) == [printed |-> <<>>, branch |-> branch]

\* Handle(h, data) with the test handler's field holding branch: the error
\* returned, the lines printed and the field afterwards.
HandleEffectFirst(h, data, branch) ==
    IF h = CatchAllHandler
    THEN [err |-> Nil, printed |-> <<>>, branch |-> branch]
    ELSE LET r == Unmarshal(data, HandleStruct(h))
             e == Effect(h, r.v, branch)
         IN  [err |-> r.err, printed |-> e.printed, branch |-> e.branch]
Handle(h, data, branch) ==
    IF h = CatchAllHandler
    THEN [err |-> Nil, printed |-> <<>>, branch |-> branch]
    ELSE LET r == Unmarshal(data, HandleStruct(h))
             e == IF r.err # Nil THEN NoEffect(branch)
                  ELSE Effect(h, r.v, branch)
         IN  [err |-> r.err, printed |-> e.printed, branch |-> e.branch]

---------------------------------------------------------------------------
(* XMLProcessor *)

CanHandleCall(i, h, ok) ==
    [call |-> "CanHandle", idx |-> i, h |-> h, ok |-> ok, err |-> Nil]
HandleCall(i, h, e) ==
    [call |-> "Handle", idx |-> i, h |-> h, ok |-> (e = Nil), err |-> e]

NewXMLProcessor == <<>>

RegisterHandlerOnce(hs, h) ==
    IF \E i \in 1..Len(hs) : hs[i] = h THEN hs ELSE Append(hs, h)
RegisterHandler(hs, h) == Append(hs, h)

Done(e, tr, pr, br, hs) ==
    [err |-> e, trace |-> tr, printed |-> pr, branch |-> br, handlers |-> hs]

\* The loop of ProcessXML from entry i on: the error returned, the calls
\* made, the effects of the Handle that ran, and the registry afterwards.
RECURSIVE ProcessXMLFrom(_, _, _, _)
ProcessXMLFrom(hs, data, i, branch) ==
    IF i > Len(hs)
    THEN Done(NoHandlerFound, <<>>, <<>>, branch, hs)
    ELSE IF CanHandle(hs[i], data)
    THEN LET r == Handle(hs[i], data, branch) IN
         Done(r.err,
              <<CanHandleCall(i, hs[i], TRUE), HandleCall(i, hs[i], r.err)>>,
              r.printed, r.branch, hs)
    ELSE LET rest == ProcessXMLFrom(hs, data, i + 1, branch) IN
         [rest EXCEPT !.trace = <<CanHandleCall(i, hs[i], FALSE)>> \o @]

\* ProcessXML as it would be with one slip in its loop: bug names the slip.
RECURSIVE ProcessXMLWith(_, _, _, _, _)
ProcessXMLWith(bug, hs, data, i, branch) ==
    IF i > Len(hs)
    THEN Done(IF bug = "nil at end" THEN Nil ELSE NoHandlerFound,
              <<>>, <<>>, branch, hs)
    ELSE IF CanHandle(hs[i], data)
    THEN LET r == Handle(hs[i], data, branch)
             calls == <<CanHandleCall(i, hs[i], TRUE),
                        HandleCall(i, hs[i], r.err)>>
         IN  IF bug = "no return" \/ (bug = "fallback" /\ r.err # Nil)
             THEN LET rest == ProcessXMLWith(bug, hs, data, i + 1, r.branch)
                  IN  Done(IF bug = "fallback" /\ rest.err # NoHandlerFound
                           THEN rest.err ELSE r.err,
                           calls \o rest.trace, r.printed \o rest.printed,
                           rest.branch, hs)
             ELSE Done(IF bug = "wrapped" /\ r.err # Nil
                       THEN "handler failed: " \o r.err ELSE r.err,
                       calls, r.printed, r.branch,
                       IF bug = "one shot"
                       THEN SubSeq(hs, 1, i - 1) \o SubSeq(hs, i + 1, Len(hs))
                       ELSE hs)
    ELSE IF bug = "return in loop"
    THEN Done(NoHandlerFound, <<CanHandleCall(i, hs[i], FALSE)>>, <<>>,
              branch, hs)
    ELSE LET rest == ProcessXMLWith(bug, hs, data, i + 1, branch) IN
         [rest EXCEPT !.trace = <<CanHandleCall(i, hs[i], FALSE)>> \o @]

ProcessXMLNoReturn(hs, data, branch) ==
    ProcessXMLWith("no return", hs, data, 1, branch)
ProcessXMLNilAtEnd(hs, data, branch) ==
    ProcessXMLWith("nil at end", hs, data, 1, branch)
ProcessXMLWrapped(hs, data, branch) ==
    ProcessXMLWith("wrapped", hs, data, 1, branch)
ProcessXMLFallback(hs, data, branch) ==
    ProcessXMLWith("fallback", hs, data, 1, branch)
ProcessXMLReturnInLoop(hs, data, branch) ==
    ProcessXMLWith("return in loop", hs, data, 1, branch)
ProcessXMLOneShot(hs, data, branch) ==
    ProcessXMLWith("one shot", hs, data, 1, branch)

ProcessXML(hs, data, branch) == ProcessXMLFrom(hs, data, 1, branch)

---------------------------------------------------------------------------
(* The program *)

Init ==
    /\ handlers = NewXMLProcessor
    /\ parsedBranchName = ""
    /\ op = "new"
    /\ xmlData = <<>>
    /\ err = Nil
    /\ trace = <<>>
    /\ printed = <<>>
    /\ regLog = <<>>
    /\ repeat = FALSE

\* processor.RegisterHandler(h)
Register ==
    /\ Len(handlers) < MaxHandlers
    /\ \E h \in Handler :
         /\ handlers' = RegisterHandler(handlers, h)
         /\ regLog' = Append(regLog, h)
    /\ op' = "register"
    /\ xmlData' = <<>>
    /\ err' = Nil
    /\ trace' = <<>>
    /\ printed' = <<>>
    /\ repeat' = FALSE
    /\ UNCHANGED parsedBranchName

\* processor.ProcessXML(data)
Process ==
    \E data \in Payloads :
      LET r == ProcessXML(handlers, data, parsedBranchName) IN
      /\ handlers' = r.handlers
      /\ parsedBranchName' = r.branch
      /\ op' = "process"
      /\ xmlData' = data
      /\ err' = r.err
      /\ trace' = r.trace
      /\ printed' = r.printed
      /\ repeat' = (op = "process" /\ xmlData = data)
      /\ UNCHANGED regLog

\* h.CanHandle(data), called on a handler directly
CallCanHandle ==
    \E h \in Handler, data \in Payloads :
      /\ op' = "canhandle"
      /\ xmlData' = data
      /\ err' = Nil
      /\ trace' = <<CanHandleCall(0, h, CanHandle(h, data))>>
      /\ printed' = <<>>
      /\ repeat' = FALSE
      /\ UNCHANGED <<handlers, parsedBranchName, regLog>>

\* h.Handle(data), called on a handler directly
CallHandle ==
    \E h \in Handler, data \in Payloads :
      LET r == Handle(h, data, parsedBranchName) IN
      /\ parsedBranchName' = r.branch
      /\ op' = "handle"
      /\ xmlData' = data
      /\ err' = r.err
      /\ trace' = <<HandleCall(0, h, r.err)>>
      /\ printed' = r.printed
      /\ repeat' = FALSE
      /\ UNCHANGED <<handlers, regLog>>

\* The dispatcher, as its callers use it.
Next == Register \/ Process
Spec == Init /\ [][Next]_vars

\* The handlers, called directly as the package's tests call them.
NextHandlers == CallCanHandle \/ CallHandle
SpecHandlers == Init /\ [][NextHandlers]_vars

---------------------------------------------------------------------------
(* Properties *)

\* The entries of hs whose CanHandle accepts data, and the handlers there.
Matching(hs, data) == { i \in 1..Len(hs) : CanHandle(hs[i], data) }
MatchingHandlers(hs, data) == { hs[i] : i \in Matching(hs, data) }
Min(I) == CHOOSE i \in I : \A j \in I : i <= j
FirstMatch(hs, data) == Min(Matching(hs, data))

\* The Handle calls of a trace, and the handlers they ran on.
HandleCalls(tr) == { k \in DOMAIN tr : tr[k].call = "Handle" }
Chosen(tr) == { tr[k].h : k \in HandleCalls(tr) }

\* Whether the decode CanHandle of h attempts on data fails.
RecognitionFails(h, data) == Unmarshal(data, RootStruct(h)).err # Nil

\* Every order the entries of hs can be registered in.
Orders(hs) ==
    { [i \in 1..Len(hs) |-> hs[f[i]]] : f \in Permutations(1..Len(hs)) }

\* C1: one ProcessXML call runs Handle on at most one handler; when some
\* registered handler accepts the payload, Handle runs on the earliest
\* registered one that does, and no handler registered after it has its
\* CanHandle or its Handle called.
C1_FirstMatchOnly ==
    op = "process" =>
      LET M == Matching(handlers, xmlData) IN
      /\ Cardinality(HandleCalls(trace)) <= 1
      /\ M # {} =>
           /\ \E k \in HandleCalls(trace) :
                /\ trace[k].idx = Min(M)
                /\ trace[k].h = handlers[Min(M)]
           /\ \A k \in DOMAIN trace : trace[k].idx <= Min(M)

\* C1: a dispatch whose payload two different registered handlers accept,
\* the first of them not the first entry of the registry.
C1_Witness ==
    /\ op = "process"
    /\ HandleCalls(trace) # {}
    /\ FirstMatch(handlers, xmlData) > 1
    /\ \E j \in Matching(handlers, xmlData) :
         handlers[j] # handlers[FirstMatch(handlers, xmlData)]

\* C2: when no registered handler accepts the payload (the empty registry
\* included), ProcessXML returns "no handler found for the given XML" and
\* no Handle runs: nothing is printed and the test handler's field is left
\* as it was.
C2_NoHandlerFound ==
    [][ (op' = "process" /\ Matching(handlers, xmlData') = {}) =>
          /\ err' = NoHandlerFound
          /\ HandleCalls(trace') = {}
          /\ Len(trace') = Len(handlers)
          /\ printed' = <<>>
          /\ parsedBranchName' = parsedBranchName ]_vars

\* C2: a dispatch on a registry of two or more handlers, none accepting the
\* payload, after an earlier dispatch has set the test handler's field.
C2_Witness ==
    /\ op = "process"
    /\ Len(handlers) >= 2
    /\ Matching(handlers, xmlData) = {}
    /\ err = NoHandlerFound
    /\ parsedBranchName # ""

\* C3: when exactly one registry entry accepts the payload, ProcessXML calls
\* Handle on that handler only and returns what that Handle returned,
\* success or failure, wherever the entry stands in the registry.
C3_SingleMatchVerbatim ==
    (op = "process" /\ Cardinality(Matching(handlers, xmlData)) = 1) =>
      LET i == FirstMatch(handlers, xmlData) IN
      /\ Cardinality(HandleCalls(trace)) = 1
      /\ \A k \in HandleCalls(trace) :
           /\ trace[k].idx = i
           /\ trace[k].h = handlers[i]
           /\ err = trace[k].err
      /\ err = Handle(handlers[i], xmlData, parsedBranchName).err

\* C3: the single accepting handler stands between two handlers that do not
\* accept the payload, and its Handle fails.
C3_Witness ==
    /\ op = "process"
    /\ Len(handlers) = 3
    /\ Matching(handlers, xmlData) = {2}
    /\ err \in DecodeErrors

\* C4: when Handle of the first accepting handler fails, ProcessXML returns
\* that very failure, not "no handler found", and no later handler is tried.
C4_FailureIsFinal ==
    (/\ op = "process"
     /\ Matching(handlers, xmlData) # {}
     /\ Handle(handlers[FirstMatch(handlers, xmlData)], xmlData,
               parsedBranchName).err # Nil) =>
      LET i == FirstMatch(handlers, xmlData) IN
      /\ err = Handle(handlers[i], xmlData, parsedBranchName).err
      /\ err # NoHandlerFound
      /\ Cardinality(HandleCalls(trace)) = 1
      /\ \A k \in DOMAIN trace : trace[k].idx <= i

\* C4: the first accepting handler fails although a handler registered
\* after it accepts the payload too and would succeed.
C4_Witness ==
    /\ op = "process"
    /\ err \in DecodeErrors
    /\ \E j \in Matching(handlers, xmlData) :
         /\ j > FirstMatch(handlers, xmlData)
         /\ Handle(handlers[j], xmlData, parsedBranchName).err = Nil

\* C5: the registry is the sequence of the handlers passed to
\* RegisterHandler, in call order and with duplicates kept, whatever
\* ProcessXML calls came in between.
C5_RegistryIsRegistrationLog == handlers = regLog

\* C5: a failed dispatch on a registry that holds one handler twice.
C5_Witness ==
    /\ op = "process"
    /\ err # Nil
    /\ \E i, j \in 1..Len(handlers) : i < j /\ handlers[i] = handlers[j]

\* C6: in every other registration order of the same handlers, a payload
\* accepted by exactly one handler is handled by that handler with the same
\* outcome, a payload accepted by none gets "no handler found", and a
\* payload accepted by several is handled by the earliest registered
\* accepting handler of that order.
C6_OrderMattersOnlyForTies ==
    op = "process" =>
      \A hs \in Orders(handlers) :
        LET r == ProcessXML(hs, xmlData, parsedBranchName)
            accepting == MatchingHandlers(handlers, xmlData)
        IN  /\ accepting = {} =>
                 /\ err = NoHandlerFound
                 /\ r.err = NoHandlerFound
            /\ Cardinality(accepting) = 1 =>
                 /\ Chosen(trace) = accepting
                 /\ Chosen(r.trace) = accepting
                 /\ r.err = err
                 /\ r.printed = printed
            /\ Cardinality(accepting) >= 2 =>
                 Chosen(r.trace) = {hs[FirstMatch(hs, xmlData)]}

\* C6: three different handlers, the payload accepted by the last one only.
C6_Witness ==
    /\ op = "process"
    /\ Len(handlers) = 3
    /\ Cardinality({handlers[i] : i \in 1..3}) = 3
    /\ Matching(handlers, xmlData) = {3}
    /\ err = Nil

\* C7: a ProcessXML call repeated with the same payload, no RegisterHandler
\* call in between, makes the same handler calls and returns the same error
\* as the first; and after a ProcessXML call with any payload, dispatching
\* the payload of the call before it again would still give that call's
\* result.
C7_Idempotent ==
    [][ (op = "process" /\ op' = "process") =>
          /\ xmlData' = xmlData =>
                (err' = err /\ trace' = trace /\ printed' = printed)
          /\ LET again == ProcessXML(handlers', xmlData, parsedBranchName')
             IN  /\ again.err = err
                 /\ again.trace = trace
                 /\ again.printed = printed ]_vars

\* C7: the second of two calls with one payload, the first of which set the
\* test handler's field.
C7_Witness ==
    /\ repeat
    /\ op = "process"
    /\ err = Nil
    /\ Chosen(trace) = {TestCodeChangesHandler}
    /\ parsedBranchName # ""

\* C8: CanHandle of a decoding handler is a boolean, FALSE whenever its
\* decode fails; ProcessXML then does not call that handler's Handle and
\* goes on to the next entry, or returns "no handler found" after the last;
\* a decode error ProcessXML returns is one a Handle returned.
C8_RecognitionNeverFails ==
    op = "process" =>
      /\ \A h \in DecodingHandlers :
           /\ CanHandle(h, xmlData) \in BOOLEAN
           /\ RecognitionFails(h, xmlData) => ~CanHandle(h, xmlData)
      /\ \A k \in DOMAIN trace :
           (/\ trace[k].call = "CanHandle"
            /\ trace[k].h \in DecodingHandlers
            /\ RecognitionFails(trace[k].h, xmlData)) =>
             /\ ~trace[k].ok
             /\ \A n \in HandleCalls(trace) : trace[n].idx # trace[k].idx
             /\ IF trace[k].idx < Len(handlers)
                THEN /\ k < Len(trace)
                     /\ trace[k + 1].call = "CanHandle"
                     /\ trace[k + 1].idx = trace[k].idx + 1
                ELSE err = NoHandlerFound
      /\ err \in DecodeErrors =>
           \E n \in HandleCalls(trace) : trace[n].err = err

\* C8: a malformed payload of the first handler's own root element: that
\* handler is passed over and a later one handles the payload.
C8_Witness ==
    /\ op = "process"
    /\ Len(trace) >= 3
    /\ trace[1].h \in DecodingHandlers
    /\ Unmarshal(xmlData, RootStruct(trace[1].h)).err
         \in {ErrUnexpectedEOF, ErrMismatchedEnd}
    /\ HandleCalls(trace) # {}

\* C9: a Handle that returns a failure has had no side effect: nothing is
\* printed and the test handler's field is as it was before the call.
C9_NoEffectOnFailure ==
    [][ (op' \in {"handle", "process"} /\ err' # Nil) =>
          /\ printed' = <<>>
          /\ parsedBranchName' = parsedBranchName ]_vars

\* C9: the test handler's Handle fails on a payload cut off after its
\* branch_name element, the field holding the value of an earlier success.
C9_Witness ==
    /\ op = "handle"
    /\ trace[1].h = TestCodeChangesHandler
    /\ err = ErrUnexpectedEOF
    /\ Len(xmlData) = 4
    /\ parsedBranchName = "feature/update-docs"

\* C10: for ReportHandler and InvoiceHandler, Handle succeeds on every
\* payload CanHandle accepts; with no other handler registered ProcessXML
\* returns success or "no handler found", never a decode error.
C10_AcceptedImpliesHandled ==
    op = "process" =>
      /\ \A h \in ExampleHandlers :
           CanHandle(h, xmlData) =>
             Handle(h, xmlData, parsedBranchName).err = Nil
      /\ (\A i \in 1..Len(handlers) : handlers[i] \in ExampleHandlers) =>
           err \in {Nil, NoHandlerFound}

\* C10: both example handlers registered, the invoice handled by the second.
C10_Witness ==
    /\ op = "process"
    /\ handlers = <<ReportHandler, InvoiceHandler>>
    /\ err = Nil
    /\ printed = <<"Processing invoice amount: 100">>

TypeOK ==
    /\ handlers \in Seq(Handler) /\ Len(handlers) <= MaxHandlers
    /\ op \in {"new", "register", "process", "canhandle", "handle"}
    /\ xmlData \in Payloads \cup {<<>>}
    /\ err \in {Nil, NoHandlerFound} \cup DecodeErrors
    /\ repeat \in BOOLEAN
=============================================================================
